---- MODULE Spec2Model ----
(***************************************************************************)
(* Model of the danube-connect sink runtime (danube-connect-core,          *)
(* runtime.rs: SinkRuntime::run / process_with_retry) driving either an    *)
(* arbitrary sink connector or the Delta Lake sink connector               *)
(* (connectors/sink-deltalake, connector.rs), which buffers records per    *)
(* topic and writes them in batches; and of the source runtime             *)
(* (runtime/source_runtime.rs: SourceRuntime::run), which polls a source   *)
(* connector and publishes each batch through per-topic producers.         *)
(***************************************************************************)
EXTENDS Integers, Sequences, FiniteSets, TLC

(* ---------------------------------------------------------------- bounds *)
\* number of messages the broker stream delivers in one run
MaxMsgs == 2
\* largest configured max_retries explored
MaxRetriesCfg == 2
\* largest configured batch size (global or per-topic override) explored
MaxBatch == 2
\* effective batch timeout, in clock ticks
BatchTimeoutTicks == 1
\* number of poll calls the source runtime makes in one run
MaxPolls == 2
\* largest number of records one poll returns
MaxBatchLen == 3
\* largest number of entries producer_configs() returns
MaxProducerCfgs == 2
\* exponent from which 2^e exceeds every max_backoff_ms explored
CapBits == 15

(* ------------------------------------------------------------- universes *)
\* topics with an entry in topic_mappings
Mapped == {"t1", "t2"}
\* topics a stream message may carry; "u" has no entry in topic_mappings
Topics == Mapped \cup {"u"}
\* the mapped topic whose TopicMapping may carry a batch_size override
OverrideTopic == "t1"
\* outcomes of SinkConnector::process
PluginResults == {"Ok", "Retryable", "InvalidData", "Fatal"}
\* outcomes of DeltaLakeSinkConnector::write_batch
WriteResults == {"Ok", "Retryable", "Fatal"}
\* Option<usize> values of TopicMapping::batch_size
Overrides == {[some |-> FALSE, val |-> 0]} \cup
             {[some |-> TRUE, val |-> n] : n \in 1..MaxBatch}

\* ConnectorConfig::validate: the largest max_retries it accepts
MaxRetriesLimit == 100
\* values of retry_backoff_ms explored
BackoffBases == {0, 1, 3, 1000}
\* values of max_backoff_ms explored
BackoffCaps == {1, 10, 30000}

\* destination topics of source records and of producer configurations
SrcTopics == {"a", "b"}
\* error kinds SourceConnector::poll may return
PollErrors == {"Retryable", "Fatal"}

VARIABLES
    plugin,        \* which connector the runtime drives: "generic" or "delta"
    cfg,           \* configuration: max_retries, batch_size, override
    pc,            \* position of SinkRuntime::run
    shutdownFlag,  \* the shared AtomicBool
    streamOpen,    \* the message stream has not been closed
    cur,           \* message being processed (0: none yet)
    topicOf,       \* topic carried by each received message
    attempt,       \* process_with_retry's attempt counter
    hist,          \* results of the plugin calls made for cur
    ackRes,        \* result of the ack call for cur: "none", "ok", "fail"
    metrics,       \* ConnectorMetrics counters and health gauge
    snap,          \* metrics when cur was received
    acked,         \* messages acknowledged at the broker, in order
    ackFailed,     \* messages whose ack call failed
    failed,        \* messages whose processing ended in an error
    skipped,       \* messages skipped as invalid data
    shutdownCalls, \* number of connector.shutdown() calls
    runResult,     \* what run() returned: "none", "ok", "err", "Config", ...
    idle,          \* ticks buffered records have waited since the last receive
    buffers,       \* Delta connector: HashMap topic -> Vec<SinkRecord>
    written,       \* Delta connector: records written to the table
    lastWrite,     \* Delta connector: latest write_batch call
    nWrites,       \* Delta connector: number of write_batch calls
    drainQueue     \* Delta connector: topics flush_all still has to flush

VARIABLES
    srcPc,            \* position of SourceRuntime::run
    srcShutdown,      \* the source runtime's shared AtomicBool
    producerCfgs,     \* topics of the list producer_configs() returned
    createIdx,        \* create_producers: next entry of producerCfgs
    producers,        \* key set of the producers HashMap
    created,          \* number of producers created for each topic
    polls,            \* number of poll calls made
    batch,            \* topics of the records of the latest poll, in order
    sendIdx,          \* publish_batch: enumerate index of the next record
    offsets,          \* publish_batch: the offsets Vec
    sendLog,          \* producer.send calls made for the latest poll
    commits,          \* connector.commit calls made for the latest poll
    lastErr,          \* error kind the latest poll or publish ended with
    srcMetrics,       \* source ConnectorMetrics counters and health gauge
    srcShutdownCalls, \* number of connector.shutdown() calls
    srcResult         \* what run() returned: "none", "ok", "Config", ...

VARIABLES
    fnArgs,           \* pure functions: the function applied and its inputs
    fnRes             \* pure functions: what the application returned

fnVars == <<fnArgs, fnRes>>

producerVars == <<producerCfgs, createIdx, producers, created>>
batchVars == <<polls, batch, sendIdx, offsets, sendLog, commits, lastErr>>
sourceVars == <<srcPc, srcShutdown, producerVars, batchVars, srcMetrics,
                srcShutdownCalls, srcResult>>

vars == <<plugin, cfg, pc, shutdownFlag, streamOpen, cur, topicOf, attempt,
          hist, ackRes, metrics, snap, acked, ackFailed, failed, skipped,
          shutdownCalls, runResult, idle, buffers, written, lastWrite,
          nWrites, drainQueue, sourceVars, fnVars>>

runtimeVars == <<pc, cur, topicOf, attempt, hist, ackRes, metrics, snap,
                 acked, ackFailed, failed, skipped, shutdownCalls, runResult>>
deltaVars == <<buffers, written, lastWrite, nWrites, drainQueue>>
sinkVars == <<plugin, cfg, shutdownFlag, streamOpen, idle, runtimeVars,
              deltaVars>>

(* --------------------------------------------------------------- helpers *)
Range(s) == {s[i] : i \in DOMAIN s}

EmptyBuffers == [t \in {} |-> <<>>]

\* contents of a topic's buffer; a missing key holds no records
BufOf(t) == IF t \in DOMAIN buffers THEN buffers[t] ELSE <<>>

\* all orders in which the keys of a map can be iterated
Perms(S) == {q \in [1..Cardinality(S) -> S] :
                \A i, j \in 1..Cardinality(S) : i # j => q[i] # q[j]}

NoWrite == [topic |-> "-", records |-> <<>>]

(* ------------------------------------------------ retry and error helpers *)
IsRetryable(r) == r = "Retryable"

IsInvalidData(r) == r = "InvalidData"

ShouldRetry(att) == att < cfg.max_retries

\* variant: the retry test admits one attempt too many
ProcessWithRetryStepOffByOne(r, att) ==
    IF r = "Ok" THEN "return_ok"
    ELSE IF IsRetryable(r) /\ att <= cfg.max_retries THEN "retry"
    ELSE IF IsInvalidData(r) THEN "return_ok"
    ELSE "return_err"

\* variant: the skip arm catches every error that is not retryable
ProcessWithRetryStepSkipsAll(r, att) ==
    IF r = "Ok" THEN "return_ok"
    ELSE IF IsRetryable(r) /\ ShouldRetry(att) THEN "retry"
    ELSE IF ~IsRetryable(r) THEN "return_ok"
    ELSE "return_err"

\* variant: the retry arm does not test the kind of the error
ProcessWithRetryStepRetriesAny(r, att) ==
    IF r = "Ok" THEN "return_ok"
    ELSE IF ShouldRetry(att) THEN "retry"
    ELSE IF IsInvalidData(r) THEN "return_ok"
    ELSE "return_err"

\* the match of process_with_retry on one plugin result
ProcessWithRetryStep(r, att) ==
    IF r = "Ok" THEN "return_ok"
    ELSE IF IsRetryable(r) /\ ShouldRetry(att) THEN "retry"
    ELSE IF IsInvalidData(r) THEN "return_ok"
    ELSE "return_err"

\* variant: the ack is sent for the message received before this one
AckedMessageStale(m) == IF m > 1 THEN m - 1 ELSE m

\* the message run() acknowledges after a successful process_with_retry
AckedMessage(m) == m

\* metrics.record_received() when a message arrives
AfterReceived(mt) == [mt EXCEPT !.received = @ + 1]

\* variant: a retry is also counted as an error
AfterRetryCountsError(mt) ==
    [mt EXCEPT !.retried = @ + 1, !.errored = @ + 1]

\* metrics.record_retry() before the backoff sleep
AfterRetry(mt) == [mt EXCEPT !.retried = @ + 1]

\* metrics.record_success() once the ack call returned Ok
AfterAckOk(mt) == [mt EXCEPT !.succeeded = @ + 1]

\* variant: the success is recorded whatever the ack call returned
AfterAckErrCountsSuccess(mt) == [mt EXCEPT !.succeeded = @ + 1]

\* the Err arm of the ack call only logs
AfterAckErr(mt) == mt

\* variant: the Err arm of run() only logs
AfterErrorUncounted(mt) == mt

\* metrics.record_error() when process_with_retry returned an error
AfterError(mt) == [mt EXCEPT !.errored = @ + 1]

(* ------------------------------------------------- Delta Lake connector *)
EffectiveBatchSize(override, global) ==
    IF override.some THEN override.val ELSE global

\* batch_size override of the mapping of topic t
MappingOverride(t) ==
    IF t = OverrideTopic THEN cfg.override ELSE [some |-> FALSE, val |-> 0]

BatchSizeOf(t) == EffectiveBatchSize(MappingOverride(t), cfg.batch_size)

\* buffers.entry(topic).or_insert_with(Vec::new).push(record)
BufPush(bufs, t, m) ==
    [x \in DOMAIN bufs \cup {t} |->
        IF x = t
        THEN (IF t \in DOMAIN bufs THEN Append(bufs[t], m) ELSE <<m>>)
        ELSE bufs[x]]

\* variant: the flush takes the whole map instead of one topic's entry
FlushTopicTakesAll(bufs, t, w) ==
    IF t \notin DOMAIN bufs
    THEN [buffers |-> bufs, wrote |-> FALSE, records |-> <<>>, result |-> "Ok"]
    ELSE LET records == bufs[t]
             rest == EmptyBuffers
         IN IF records = <<>>
            THEN [buffers |-> rest, wrote |-> FALSE, records |-> <<>>,
                  result |-> "Ok"]
            ELSE IF t \notin Mapped
            THEN [buffers |-> rest, wrote |-> FALSE, records |-> <<>>,
                  result |-> "Fatal"]
            ELSE [buffers |-> rest, wrote |-> TRUE, records |-> records,
                  result |-> w]

\* flush_topic(t) with w the outcome of the write, should one be made
FlushTopic(bufs, t, w) ==
    IF t \notin DOMAIN bufs
    THEN [buffers |-> bufs, wrote |-> FALSE, records |-> <<>>, result |-> "Ok"]
    ELSE LET records == bufs[t]
             rest == [x \in DOMAIN bufs \ {t} |-> bufs[x]]
         IN IF records = <<>>
            THEN [buffers |-> rest, wrote |-> FALSE, records |-> <<>>,
                  result |-> "Ok"]
            ELSE IF t \notin Mapped
            THEN [buffers |-> rest, wrote |-> FALSE, records |-> <<>>,
                  result |-> "Fatal"]
            ELSE [buffers |-> rest, wrote |-> TRUE, records |-> records,
                  result |-> w]

\* effect of one flush_topic call on the connector's state
ApplyFlush(f, t) ==
    /\ buffers' = f.buffers
    /\ written' = IF f.wrote /\ f.result = "Ok"
                  THEN written \cup Range(f.records) ELSE written
    /\ lastWrite' = IF f.wrote
                    THEN [topic |-> t, records |-> f.records] ELSE lastWrite
    /\ nWrites' = IF f.wrote THEN nWrites + 1 ELSE nWrites

(* ------------------------------------------------------------------ Init *)
\* no pure function has been applied
NoCall ==
    /\ fnArgs = [fn |-> "none"]
    /\ fnRes = [fn |-> "none"]

\* the source runtime as SourceRuntime::new leaves it
SourceNew ==
    /\ srcPc = "init"
    /\ srcShutdown = FALSE
    /\ producerCfgs = <<>>
    /\ createIdx = 0
    /\ producers = {}
    /\ created = [t \in SrcTopics |-> 0]
    /\ polls = 0
    /\ batch = <<>>
    /\ sendIdx = 0
    /\ offsets = <<>>
    /\ sendLog = <<>>
    /\ commits = <<>>
    /\ lastErr = "none"
    /\ srcMetrics = [succeeded |-> 0, errored |-> 0, healthy |-> TRUE]
    /\ srcShutdownCalls = 0
    /\ srcResult = "none"

Init ==
    /\ plugin \in {"generic", "delta"}
    /\ cfg \in [max_retries : 0..MaxRetriesCfg,
                batch_size : 1..MaxBatch,
                override : Overrides]
    /\ plugin = "generic" =>
          cfg.batch_size = 1 /\ cfg.override = [some |-> FALSE, val |-> 0]
    /\ pc = "init"
    /\ shutdownFlag = FALSE
    /\ streamOpen = TRUE
    /\ cur = 0
    /\ topicOf = [i \in 1..MaxMsgs |-> "-"]
    /\ attempt = 0
    /\ hist = <<>>
    /\ ackRes = "none"
    /\ metrics = [received |-> 0, succeeded |-> 0, errored |-> 0,
                  retried |-> 0, invalid |-> 0, healthy |-> TRUE]
    /\ snap = metrics
    /\ acked = <<>>
    /\ ackFailed = {}
    /\ failed = {}
    /\ skipped = {}
    /\ shutdownCalls = 0
    /\ runResult = "none"
    /\ idle = 0
    /\ buffers = EmptyBuffers
    /\ written = {}
    /\ lastWrite = NoWrite
    /\ nWrites = 0
    /\ drainQueue = <<>>
    /\ SourceNew
    /\ NoCall

\* topics of the messages the consumer's stream can deliver
StreamTopics == IF plugin = "delta" THEN Topics ELSE Mapped

(* --------------------------------------------------------------- actions *)
SignalPcPreempts(p) == "shutdown"

\* the ctrl-c task is a task of its own: run() stays where it is
SignalPc(p) == p

\* the ctrl-c task stores true into the shutdown flag
Signal ==
    /\ pc # "stopped"
    /\ ~shutdownFlag
    /\ shutdownFlag' = TRUE
    /\ pc' = SignalPc(pc)
    /\ UNCHANGED <<fnVars, sourceVars, plugin, cfg, streamOpen, idle, cur, topicOf, attempt,
                   hist, ackRes, metrics, snap, acked, ackFailed, failed,
                   skipped, shutdownCalls, runResult>>
    /\ UNCHANGED deltaVars

\* the broker side of the stream goes away: recv() yields None from now on
CloseStream ==
    /\ pc = "recv"
    /\ streamOpen
    /\ streamOpen' = FALSE
    /\ UNCHANGED <<fnVars, sourceVars, plugin, cfg, shutdownFlag, idle>>
    /\ UNCHANGED runtimeVars
    /\ UNCHANGED deltaVars

\* time passes while the runtime awaits the next message and records sit
\* in a buffer
Tick ==
    /\ pc = "recv"
    /\ \E t \in DOMAIN buffers : buffers[t] # <<>>
    /\ idle <= BatchTimeoutTicks
    /\ idle' = idle + 1
    /\ UNCHANGED <<fnVars, sourceVars, plugin, cfg, shutdownFlag, streamOpen>>
    /\ UNCHANGED runtimeVars
    /\ UNCHANGED deltaVars

AfterInitializeErrShutsDown == "shutdown"

\* run(): the `?` after connector.initialize returns from run() at once
AfterInitializeErr == "stopped"

\* run(): connector.initialize(config)
Initialize ==
    /\ pc = "init"
    /\ \/ /\ plugin = "generic"
          /\ \E ok \in BOOLEAN :
                IF ok
                THEN pc' = "subscribe" /\ runResult' = runResult
                ELSE pc' = AfterInitializeErr /\ runResult' = "err"
          /\ buffers' = buffers
       \/ /\ plugin = "delta"
          /\ buffers' = [t \in Mapped |-> <<>>]
          /\ pc' = "subscribe"
          /\ runResult' = runResult
    /\ UNCHANGED <<fnVars, sourceVars, plugin, cfg, shutdownFlag, streamOpen, idle, cur, topicOf,
                   attempt, hist, ackRes, metrics, snap, acked, ackFailed,
                   failed, skipped, shutdownCalls, written, lastWrite,
                   nWrites, drainQueue>>

\* run(): build the consumer, subscribe, open the message stream; a missing
\* source_topic or subscription_name is a Config error, a failing subscribe
\* or receive a Fatal one
Subscribe ==
    /\ pc = "subscribe"
    /\ \E r \in {"Ok", "Config", "Fatal"} :
          IF r = "Ok"
          THEN pc' = "loop" /\ runResult' = runResult
          ELSE pc' = "stopped" /\ runResult' = r
    /\ UNCHANGED <<fnVars, sourceVars, plugin, cfg, shutdownFlag, streamOpen, idle, cur, topicOf,
                   attempt, hist, ackRes, metrics, snap, acked, ackFailed,
                   failed, skipped, shutdownCalls>>
    /\ UNCHANGED deltaVars

\* run(): the while condition of the main loop
LoopCheck ==
    /\ pc = "loop"
    /\ pc' = IF shutdownFlag THEN "shutdown" ELSE "recv"
    /\ idle' = IF shutdownFlag THEN 0 ELSE idle
    /\ UNCHANGED <<fnVars, sourceVars, plugin, cfg, shutdownFlag, streamOpen, cur, topicOf,
                   attempt, hist, ackRes, metrics, snap, acked, ackFailed,
                   failed, skipped, shutdownCalls, runResult>>
    /\ UNCHANGED deltaVars

\* run(): message_stream.recv() yields a message
Receive ==
    /\ pc = "recv"
    /\ streamOpen
    /\ metrics.received < MaxMsgs
    /\ \E t \in StreamTopics :
          /\ cur' = metrics.received + 1
          /\ topicOf' = [topicOf EXCEPT ![metrics.received + 1] = t]
    /\ metrics' = AfterReceived(metrics)
    /\ snap' = metrics'
    /\ attempt' = 0
    /\ hist' = <<>>
    /\ ackRes' = "none"
    /\ idle' = 0
    /\ pc' = "process"
    /\ UNCHANGED <<fnVars, sourceVars, plugin, cfg, shutdownFlag, streamOpen, acked, ackFailed,
                   failed, skipped, shutdownCalls, runResult>>
    /\ UNCHANGED deltaVars

\* run(): message_stream.recv() yields None
RecvNone ==
    /\ pc = "recv"
    /\ ~streamOpen
    /\ pc' = "loop"
    /\ UNCHANGED <<fnVars, sourceVars, plugin, cfg, shutdownFlag, streamOpen, idle, cur, topicOf,
                   attempt, hist, ackRes, metrics, snap, acked, ackFailed,
                   failed, skipped, shutdownCalls, runResult>>
    /\ UNCHANGED deltaVars

\* process_with_retry and run(): what follows a plugin call returning r
Handle(r) ==
    /\ hist' = Append(hist, r)
    /\ LET o == ProcessWithRetryStep(r, attempt) IN
       CASE o = "retry" ->
              /\ attempt' = attempt + 1
              /\ metrics' = AfterRetry(metrics)
              /\ pc' = "backoff"
              /\ UNCHANGED <<failed, skipped>>
         [] o = "return_ok" ->
              /\ pc' = "ack"
              /\ skipped' = IF IsInvalidData(r) THEN skipped \cup {cur}
                            ELSE skipped
              /\ UNCHANGED <<attempt, metrics, failed>>
         [] OTHER ->
              /\ metrics' = AfterError(metrics)
              /\ failed' = failed \cup {cur}
              /\ pc' = "loop"
              /\ UNCHANGED <<attempt, skipped>>

\* process_with_retry: connector.process(record) on an arbitrary connector
Process ==
    /\ pc = "process"
    /\ plugin = "generic"
    /\ \E r \in PluginResults : Handle(r)
    /\ UNCHANGED <<fnVars, sourceVars, plugin, cfg, shutdownFlag, streamOpen, idle, cur, topicOf,
                   ackRes, snap, acked, ackFailed, shutdownCalls, runResult>>
    /\ UNCHANGED deltaVars

\* DeltaLakeSinkConnector::process up to the batch-size test
DeltaProcess ==
    /\ pc = "process"
    /\ plugin = "delta"
    /\ LET t == topicOf[cur]
           pushed == BufPush(buffers, t, cur)
       IN /\ buffers' = pushed
          /\ IF t \notin Mapped
             THEN Handle("Fatal")
             ELSE IF Len(pushed[t]) >= BatchSizeOf(t)
             THEN /\ pc' = "flush"
                  /\ UNCHANGED <<attempt, hist, metrics, failed, skipped>>
             ELSE Handle("Ok")
    /\ UNCHANGED <<fnVars, sourceVars, plugin, cfg, shutdownFlag, streamOpen, idle, cur, topicOf,
                   ackRes, snap, acked, ackFailed, shutdownCalls, runResult,
                   written, lastWrite, nWrites, drainQueue>>

\* DeltaLakeSinkConnector::process: flush_topic once the batch size is reached
DeltaFlush ==
    /\ pc = "flush"
    /\ \E w \in WriteResults :
          LET f == FlushTopic(buffers, topicOf[cur], w) IN
          /\ ApplyFlush(f, topicOf[cur])
          /\ Handle(f.result)
    /\ UNCHANGED <<fnVars, sourceVars, plugin, cfg, shutdownFlag, streamOpen, idle, cur, topicOf,
                   ackRes, snap, acked, ackFailed, shutdownCalls, runResult,
                   drainQueue>>

AfterBackoffCancels(flag) == IF flag THEN "loop" ELSE "process"

\* process_with_retry: the sleep is awaited whatever the flag holds, and the
\* loop goes on to the next attempt
AfterBackoff(flag) == "process"

\* process_with_retry: sleep(backoff) before the next attempt
Backoff ==
    /\ pc = "backoff"
    /\ pc' = AfterBackoff(shutdownFlag)
    /\ UNCHANGED <<fnVars, sourceVars, plugin, cfg, shutdownFlag, streamOpen, idle, cur, topicOf,
                   attempt, hist, ackRes, metrics, snap, acked, ackFailed,
                   failed, skipped, shutdownCalls, runResult>>
    /\ UNCHANGED deltaVars

\* run(): consumer.ack(&message) after process_with_retry returned Ok
Ack ==
    /\ pc = "ack"
    /\ \E ok \in BOOLEAN :
          IF ok
          THEN /\ acked' = Append(acked, AckedMessage(cur))
               /\ metrics' = AfterAckOk(metrics)
               /\ ackRes' = "ok"
               /\ ackFailed' = ackFailed
          ELSE /\ ackFailed' = ackFailed \cup {cur}
               /\ ackRes' = "fail"
               /\ metrics' = AfterAckErr(metrics)
               /\ acked' = acked
    /\ pc' = "loop"
    /\ UNCHANGED <<fnVars, sourceVars, plugin, cfg, shutdownFlag, streamOpen, idle, cur, topicOf,
                   attempt, hist, snap, failed, skipped, shutdownCalls,
                   runResult>>
    /\ UNCHANGED deltaVars

\* run(): connector.shutdown() of an arbitrary connector, then set_health
Shutdown ==
    /\ pc = "shutdown"
    /\ plugin = "generic"
    /\ shutdownCalls' = shutdownCalls + 1
    /\ \E ok \in BOOLEAN :
          IF ok
          THEN /\ metrics' = [metrics EXCEPT !.healthy = FALSE]
               /\ runResult' = "ok"
          ELSE /\ metrics' = metrics
               /\ runResult' = "err"
    /\ pc' = "stopped"
    /\ UNCHANGED <<fnVars, sourceVars, plugin, cfg, shutdownFlag, streamOpen, idle, cur, topicOf,
                   attempt, hist, ackRes, snap, acked, ackFailed, failed,
                   skipped>>
    /\ UNCHANGED deltaVars

\* DeltaLakeSinkConnector::shutdown enters flush_all: snapshot of the keys
DeltaShutdown ==
    /\ pc = "shutdown"
    /\ plugin = "delta"
    /\ shutdownCalls' = shutdownCalls + 1
    /\ drainQueue' \in Perms(DOMAIN buffers)
    /\ pc' = "draining"
    /\ UNCHANGED <<fnVars, sourceVars, plugin, cfg, shutdownFlag, streamOpen, idle, cur, topicOf,
                   attempt, hist, ackRes, metrics, snap, acked, ackFailed,
                   failed, skipped, runResult, buffers, written, lastWrite,
                   nWrites>>

\* flush_all: flush the next topic; the first error ends the loop
DrainStep ==
    /\ pc = "draining"
    /\ drainQueue # <<>>
    /\ \E w \in WriteResults :
          LET t == Head(drainQueue)
              f == FlushTopic(buffers, t, w)
          IN /\ ApplyFlush(f, t)
             /\ drainQueue' = IF f.result = "Ok" THEN Tail(drainQueue)
                              ELSE <<>>
    /\ UNCHANGED <<fnVars, sourceVars, plugin, cfg, shutdownFlag, streamOpen, idle>>
    /\ UNCHANGED runtimeVars

\* DeltaLakeSinkConnector::shutdown returns Ok; run() sets health and returns
DrainDone ==
    /\ pc = "draining"
    /\ drainQueue = <<>>
    /\ metrics' = [metrics EXCEPT !.healthy = FALSE]
    /\ runResult' = "ok"
    /\ pc' = "stopped"
    /\ UNCHANGED <<fnVars, sourceVars, plugin, cfg, shutdownFlag, streamOpen, idle, cur, topicOf,
                   attempt, hist, ackRes, snap, acked, ackFailed, failed,
                   skipped, shutdownCalls>>
    /\ UNCHANGED deltaVars

Next ==
    \/ Signal
    \/ CloseStream
    \/ Tick
    \/ Initialize
    \/ Subscribe
    \/ LoopCheck
    \/ Receive
    \/ RecvNone
    \/ Process
    \/ DeltaProcess
    \/ DeltaFlush
    \/ Backoff
    \/ Ack
    \/ Shutdown
    \/ DeltaShutdown
    \/ DrainStep
    \/ DrainDone

Spec == Init /\ [][Next]_vars

\* the steps the task running SinkRuntime::run takes by itself: plugin, broker
\* and timer calls return.  The arrival of a message (Receive), the signal,
\* the closing of the stream and the passing of time are left to the
\* environment.
RuntimeStep ==
    \/ Initialize
    \/ Subscribe
    \/ LoopCheck
    \/ RecvNone
    \/ Process
    \/ DeltaProcess
    \/ DeltaFlush
    \/ Backoff
    \/ Ack
    \/ Shutdown
    \/ DeltaShutdown
    \/ DrainStep
    \/ DrainDone

FairSpec == Spec /\ WF_vars(RuntimeStep)

(* -------------------------------------------------------- source runtime *)
\* lists of topics of length 0..n
SeqsUpTo(S, n) == UNION {[1..k -> S] : k \in 0..n}

\* what producer_configs() may return: the topics of its entries, in order
ProducerCfgLists == SeqsUpTo(SrcTopics, MaxProducerCfgs)

\* what poll() may return in its Ok case: the topics of the records, in order
PollBatches == SeqsUpTo(SrcTopics, MaxBatchLen)

RecordAtReversed(records, i) ==
    [topic |-> records[Len(records) - i], pos |-> Len(records) - i - 1]

\* records.into_iter().enumerate(): the record visited at index i
RecordAt(records, i) == [topic |-> records[i + 1], pos |-> i]

OffsetOfOneBased(topic, i) == [topic |-> topic, offset |-> i + 1]

\* Offset::new(record.topic, idx as u64)
OffsetOf(topic, i) == [topic |-> topic, offset |-> i]

PublishOutcomeNoLookup(topic, keys, sendOk) ==
    IF sendOk THEN "sent" ELSE "send_failed"

\* publish_batch for one record: producers.get_mut(topic), then send
PublishOutcome(topic, keys, sendOk) ==
    IF topic \notin keys THEN "no_producer"
    ELSE IF sendOk THEN "sent"
    ELSE "send_failed"

PollDispatchAlwaysPublish(records) == "publish"

\* the polling loop's match on the result of poll(): arm taken for Ok(records)
PollDispatch(records) == IF records # <<>> THEN "publish" ELSE "sleep"

SrcAfterSuccessUncounted(m) == m

\* metrics.record_success() / metrics.record_error()
SrcAfterSuccess(m) == [m EXCEPT !.succeeded = @ + 1]

SrcAfterErrorUncounted(m) == m

SrcAfterError(m) == [m EXCEPT !.errored = @ + 1]

InsertProducerReplacesAll(keys, topic) == {topic}

\* self.producers.insert(topic.clone(), producer): the key set afterwards
InsertProducer(keys, topic) == keys \cup {topic}

\* the ctrl-c task of setup_shutdown_handler stores true into the flag
SrcSignal ==
    /\ srcPc # "stopped"
    /\ ~srcShutdown
    /\ srcShutdown' = TRUE
    /\ UNCHANGED <<srcPc, producerVars, batchVars, srcMetrics,
                   srcShutdownCalls, srcResult>>
    /\ UNCHANGED <<sinkVars, fnVars>>

\* initialize_connector: connector.initialize(config).await?
SrcInitialize ==
    /\ srcPc = "init"
    /\ \E ok \in BOOLEAN :
          /\ srcPc' = IF ok THEN "producers" ELSE "stopped"
          /\ srcResult' = IF ok THEN srcResult ELSE "err"
    /\ UNCHANGED <<srcShutdown, producerVars, batchVars, srcMetrics,
                   srcShutdownCalls>>
    /\ UNCHANGED <<sinkVars, fnVars>>

EmptyConfigsCheckSkipped(l) == IF l = <<>> THEN "loop" ELSE "create"

\* create_producers: an empty list ends run(), any other list is walked
EmptyConfigsCheck(l) == IF l = <<>> THEN "stopped" ELSE "create"

\* create_producers: producer_configs().await? and the is_empty test
ProducerConfigs ==
    /\ srcPc = "producers"
    /\ \/ /\ srcPc' = "stopped"
          /\ srcResult' = "err"
          /\ UNCHANGED producerVars
       \/ \E l \in ProducerCfgLists :
             /\ producerCfgs' = l
             /\ createIdx' = 1
             /\ srcPc' = EmptyConfigsCheck(l)
             /\ srcResult' = IF srcPc' = "stopped" THEN "Config"
                             ELSE srcResult
             /\ UNCHANGED <<producers, created>>
    /\ UNCHANGED <<srcShutdown, batchVars, srcMetrics, srcShutdownCalls>>
    /\ UNCHANGED <<sinkVars, fnVars>>

\* create_producers: one iteration of the for loop over producer_configs
CreateProducer ==
    /\ srcPc = "create"
    /\ LET topic == producerCfgs[createIdx] IN
       \E ok \in BOOLEAN :
          IF ok
          THEN /\ producers' = InsertProducer(producers, topic)
               /\ created' = [created EXCEPT ![topic] = @ + 1]
               /\ createIdx' = createIdx + 1
               /\ srcPc' = IF createIdx = Len(producerCfgs)
                           THEN "loop" ELSE "create"
               /\ UNCHANGED srcResult
          ELSE /\ srcPc' = "stopped"
               /\ srcResult' = "Fatal"
               /\ UNCHANGED <<producers, created, createIdx>>
    /\ UNCHANGED <<srcShutdown, producerCfgs, batchVars, srcMetrics,
                   srcShutdownCalls>>
    /\ UNCHANGED <<sinkVars, fnVars>>

\* process_polling_loop: the while condition
SrcLoopCheck ==
    /\ srcPc = "loop"
    /\ srcPc' = IF srcShutdown THEN "shutdown" ELSE "poll"
    /\ UNCHANGED <<srcShutdown, producerVars, batchVars, srcMetrics,
                   srcShutdownCalls, srcResult>>
    /\ UNCHANGED <<sinkVars, fnVars>>

\* process_polling_loop: connector.poll().await and the match on its result
Poll ==
    /\ srcPc = "poll"
    /\ polls < MaxPolls
    /\ polls' = polls + 1
    /\ sendIdx' = 0
    /\ offsets' = <<>>
    /\ sendLog' = <<>>
    /\ commits' = <<>>
    /\ \/ \E records \in PollBatches :
             /\ batch' = records
             /\ lastErr' = "none"
             /\ srcPc' = PollDispatch(records)
             /\ UNCHANGED srcMetrics
       \/ \E e \in PollErrors :
             /\ batch' = <<>>
             /\ lastErr' = e
             /\ srcMetrics' = SrcAfterError(srcMetrics)
             /\ srcPc' = "errsleep"
    /\ UNCHANGED <<srcShutdown, producerVars, srcShutdownCalls, srcResult>>
    /\ UNCHANGED <<sinkVars, fnVars>>

\* publish_batch: one iteration of the for loop; its Err return reaches the
\* Err arm of process_polling_loop
PublishRecord ==
    /\ srcPc = "publish"
    /\ sendIdx < Len(batch)
    /\ LET record == RecordAt(batch, sendIdx) IN
       \E sendOk \in BOOLEAN :
          LET o == PublishOutcome(record.topic, producers, sendOk) IN
          /\ sendLog' = IF o = "no_producer" THEN sendLog
                        ELSE Append(sendLog, [topic |-> record.topic,
                                              rec |-> record.pos,
                                              ok |-> sendOk])
          /\ IF o = "sent"
             THEN /\ srcMetrics' = SrcAfterSuccess(srcMetrics)
                  /\ offsets' = Append(offsets,
                                       OffsetOf(record.topic, sendIdx))
                  /\ sendIdx' = sendIdx + 1
                  /\ UNCHANGED <<lastErr, srcPc>>
             ELSE /\ lastErr' = IF o = "no_producer" THEN "Fatal"
                                ELSE "Retryable"
                  /\ srcMetrics' = SrcAfterError(srcMetrics)
                  /\ srcPc' = "loop"
                  /\ UNCHANGED <<offsets, sendIdx>>
    /\ UNCHANGED <<srcShutdown, producerVars, polls, batch, commits,
                   srcShutdownCalls, srcResult>>
    /\ UNCHANGED <<sinkVars, fnVars>>

SrcAfterCommitErrCounted(m) == [m EXCEPT !.errored = @ + 1]

\* the Err arm of the commit call only logs
SrcAfterCommitErr(m) == m

\* publish_batch returned Ok(offsets): connector.commit(offsets).await, whose
\* error is only logged
Commit ==
    /\ srcPc = "publish"
    /\ sendIdx >= Len(batch)
    /\ \E ok \in BOOLEAN :
          /\ commits' = Append(commits, [offsets |-> offsets, ok |-> ok])
          /\ srcMetrics' = IF ok THEN srcMetrics
                           ELSE SrcAfterCommitErr(srcMetrics)
    /\ srcPc' = "loop"
    /\ UNCHANGED <<srcShutdown, producerVars, polls, batch, sendIdx, offsets,
                   sendLog, lastErr, srcShutdownCalls, srcResult>>
    /\ UNCHANGED <<sinkVars, fnVars>>

\* tokio::time::sleep(poll_interval) after an empty poll, sleep(1s) after a
\* poll error
SrcSleep ==
    /\ srcPc \in {"sleep", "errsleep"}
    /\ srcPc' = "loop"
    /\ UNCHANGED <<srcShutdown, producerVars, batchVars, srcMetrics,
                   srcShutdownCalls, srcResult>>
    /\ UNCHANGED <<sinkVars, fnVars>>

\* shutdown_connector: connector.shutdown().await?, then set_health(false)
SrcShutdown ==
    /\ srcPc = "shutdown"
    /\ srcShutdownCalls' = srcShutdownCalls + 1
    /\ \E ok \in BOOLEAN :
          /\ srcMetrics' = IF ok THEN [srcMetrics EXCEPT !.healthy = FALSE]
                           ELSE srcMetrics
          /\ srcResult' = IF ok THEN "ok" ELSE "err"
    /\ srcPc' = "stopped"
    /\ UNCHANGED <<srcShutdown, producerVars, batchVars>>
    /\ UNCHANGED <<sinkVars, fnVars>>

SourceNext ==
    \/ SrcSignal
    \/ SrcInitialize
    \/ ProducerConfigs
    \/ CreateProducer
    \/ SrcLoopCheck
    \/ Poll
    \/ PublishRecord
    \/ Commit
    \/ SrcSleep
    \/ SrcShutdown

\* the sink runtime stays as constructed while the source runtime runs
SourceInit == Init /\ plugin = "generic"

SourceSpec == SourceInit /\ [][SourceNext]_vars

SourceTypeOK ==
    /\ srcPc \in {"init", "producers", "create", "loop", "poll", "publish",
                  "sleep", "errsleep", "shutdown", "stopped"}
    /\ producers \subseteq SrcTopics
    /\ polls \in 0..MaxPolls
    /\ batch \in PollBatches
    /\ sendIdx \in 0..Len(batch)
    /\ lastErr \in {"none", "Retryable", "Fatal"}
    /\ srcResult \in {"none", "ok", "err", "Config", "Fatal"}

(* -------------------------------------------------------- pure functions *)
Min(a, b) == IF a <= b THEN a ELSE b

\* 2^e, saturating at 2^CapBits, which exceeds every cap
Pow2Sat(e) == IF e >= CapBits THEN 2 ^ CapBits ELSE 2 ^ e

\* RetryStrategy::calculate_backoff(attempt), in milliseconds: the base delay
\* times 2^(attempt - 1), never above the cap
CalculateBackoff(base, cap, att) ==
    Min(base * Pow2Sat(IF att >= 1 THEN att - 1 ELSE 0), cap)

BackoffAttemptBeforeIncrement(att) == att

\* process_with_retry: the retry number handed to calculate_backoff is the
\* attempt counter after its increment
BackoffAttempt(att) == att + 1

\* SinkRuntime::new: RetryStrategy::new(RetryConfig::new(max_retries,
\* retry_backoff_ms, max_backoff_ms)) for some configuration
NewRetryStrategy ==
    /\ fnArgs.fn = "none"
    /\ \E base \in BackoffBases, cap \in BackoffCaps :
          fnArgs' = [fn |-> "calculate_backoff", base |-> base, cap |-> cap,
                     attempt |-> 0]
    /\ fnRes' = [fn |-> "calculate_backoff", delay |-> 0, prev |-> 0]
    /\ UNCHANGED <<sinkVars, sourceVars>>

\* process_with_retry: the retry arm computes the delay it sleeps
RetrySleep ==
    /\ fnArgs.fn = "calculate_backoff"
    /\ fnArgs.attempt < MaxRetriesLimit
    /\ fnArgs' = [fnArgs EXCEPT !.attempt = @ + 1]
    /\ fnRes' = [fnRes EXCEPT
                   !.delay = CalculateBackoff(fnArgs.base, fnArgs.cap,
                                              BackoffAttempt(fnArgs.attempt)),
                   !.prev = fnRes.delay]
    /\ UNCHANGED <<sinkVars, sourceVars>>

\* configurations handed to ConnectorConfig::validate
ConfigInputs ==
    [danube_service_url : {"", "http://localhost:6650"},
     connector_name : {"", "connector"},
     max_retries : {0, 3, MaxRetriesLimit, MaxRetriesLimit + 1},
     batch_size : {0, 1, 1000}]

ValidateRejectsLimit(c) ==
    IF c.danube_service_url = "" THEN "Config"
    ELSE IF c.connector_name = "" THEN "Config"
    ELSE IF c.max_retries >= MaxRetriesLimit THEN "Config"
    ELSE IF c.batch_size = 0 THEN "Config"
    ELSE "Ok"

\* ConnectorConfig::validate(&self)
Validate(c) ==
    IF c.danube_service_url = "" THEN "Config"
    ELSE IF c.connector_name = "" THEN "Config"
    ELSE IF c.max_retries > MaxRetriesLimit THEN "Config"
    ELSE IF c.batch_size = 0 THEN "Config"
    ELSE "Ok"

\* config.validate() on some configuration; validate takes &self, so the
\* configuration afterwards is the one it was given
ValidateCall ==
    /\ fnArgs.fn = "none"
    /\ \E c \in ConfigInputs :
          /\ fnArgs' = [fn |-> "validate", config |-> c]
          /\ fnRes' = [fn |-> "validate", result |-> Validate(c),
                       config |-> c]
    /\ UNCHANGED <<sinkVars, sourceVars>>

\* an i64 as four 16-bit digits, most significant first; the top digit is
\* signed, so the value is w3 * 2^48 + w2 * 2^32 + w1 * 2^16 + w0
I64(w3, w2, w1, w0) == [w3 |-> w3, w2 |-> w2, w1 |-> w1, w0 |-> w0]

\* 0, 42, -1, i64::MIN, i64::MAX, 256, -256, 2^32 and 0x0102030405060708
Int64Inputs ==
    {I64(0, 0, 0, 0), I64(0, 0, 0, 42), I64(-1, 2^16 - 1, 2^16 - 1, 2^16 - 1),
     I64(-(2^15), 0, 0, 0), I64(2^15 - 1, 2^16 - 1, 2^16 - 1, 2^16 - 1),
     I64(0, 0, 0, 256), I64(-1, 2^16 - 1, 2^16 - 1, 2^16 - 256),
     I64(0, 1, 0, 0), I64(258, 772, 1286, 1800)}

\* payload lengths explored: empty, short, one less, exact, one more
PayloadLens == {0, 3, 7, 8, 9}

\* the two bytes of a 16-bit digit, high byte first; a negative top digit
\* is taken in two's complement
DigitBytes(w) == <<(w % 2^16) \div 256, (w % 2^16) % 256>>

\* i64::to_be_bytes(x).to_vec()
ToBeBytes(x) ==
    DigitBytes(x.w3) \o DigitBytes(x.w2) \o DigitBytes(x.w1) \o DigitBytes(x.w0)

\* the payload cut to, or padded with zero bytes up to, n bytes
Resize(bytes, n) ==
    [i \in 1..n |-> IF i <= Len(bytes) THEN bytes[i] ELSE 0]

FromBeBytesLittleEndian(p) ==
    LET u == p[7] * 256 + p[8] IN
    I64(IF u >= 2^15 THEN u - 2^16 ELSE u,
        p[5] * 256 + p[6], p[3] * 256 + p[4], p[1] * 256 + p[2])

\* i64::from_be_bytes([payload[0], ..., payload[7]])
FromBeBytes(p) ==
    LET u == p[1] * 256 + p[2] IN
    I64(IF u >= 2^15 THEN u - 2^16 ELSE u,
        p[3] * 256 + p[4], p[5] * 256 + p[6], p[7] * 256 + p[8])

\* SinkRecord::payload_int64
PayloadInt64(p) ==
    IF Len(p) # 8
    THEN [kind |-> "Err", error |-> "InvalidData"]
    ELSE [kind |-> "Ok", value |-> FromBeBytes(p)]

\* payload_int64 on a record whose payload is x.to_be_bytes(), cut or padded
\* to some length
PayloadInt64Call ==
    /\ fnArgs.fn = "none"
    /\ \E x \in Int64Inputs, n \in PayloadLens :
          LET p == Resize(ToBeBytes(x), n) IN
          /\ fnArgs' = [fn |-> "payload_int64", x |-> x, payload |-> p]
          /\ fnRes' = [fn |-> "payload_int64", result |-> PayloadInt64(p)]
    /\ UNCHANGED <<sinkVars, sourceVars>>

FnNext ==
    \/ NewRetryStrategy
    \/ RetrySleep
    \/ ValidateCall
    \/ PayloadInt64Call

\* both runtimes stay as constructed
FnInit == Init /\ plugin = "generic" /\ cfg.max_retries = 0

FnSpec == FnInit /\ [][FnNext]_vars

(* ---------------------------------------------------------- either run *)
\* a connector process constructs one runtime and runs it: the sink runtime
\* (simple_sink.rs, main) or the source runtime (simple_source.rs, main)
\* the source runtime was constructed and never run
SinkRuns == srcPc = "init" /\ ~srcShutdown

\* the sink runtime was constructed and never run
SourceRuns == pc = "init" /\ ~shutdownFlag /\ plugin = "generic"

RunNext ==
    \/ SinkRuns /\ Signal
    \/ SinkRuns /\ CloseStream
    \/ SinkRuns /\ Tick
    \/ SinkRuns /\ Initialize
    \/ SinkRuns /\ Subscribe
    \/ SinkRuns /\ LoopCheck
    \/ SinkRuns /\ Receive
    \/ SinkRuns /\ RecvNone
    \/ SinkRuns /\ Process
    \/ SinkRuns /\ DeltaProcess
    \/ SinkRuns /\ DeltaFlush
    \/ SinkRuns /\ Backoff
    \/ SinkRuns /\ Ack
    \/ SinkRuns /\ Shutdown
    \/ SinkRuns /\ DeltaShutdown
    \/ SinkRuns /\ DrainStep
    \/ SinkRuns /\ DrainDone
    \/ SourceRuns /\ SrcSignal
    \/ SourceRuns /\ SrcInitialize
    \/ SourceRuns /\ ProducerConfigs
    \/ SourceRuns /\ CreateProducer
    \/ SourceRuns /\ SrcLoopCheck
    \/ SourceRuns /\ Poll
    \/ SourceRuns /\ PublishRecord
    \/ SourceRuns /\ Commit
    \/ SourceRuns /\ SrcSleep
    \/ SourceRuns /\ SrcShutdown

RunSpec == Init /\ [][RunNext]_vars

(* ------------------------------------------------------------ type check *)
TypeOK ==
    /\ plugin \in {"generic", "delta"}
    /\ pc \in {"init", "subscribe", "loop", "recv", "process", "flush",
               "backoff", "ack", "shutdown", "draining", "stopped"}
    /\ cur \in 0..MaxMsgs
    /\ attempt \in 0..cfg.max_retries
    /\ ackRes \in {"none", "ok", "fail"}
    /\ runResult \in {"none", "ok", "err", "Config", "Fatal"}
    /\ DOMAIN buffers \subseteq Topics
(* ------------------------------------------------- vocabulary of claims *)
\* the processing of cur has reached its outcome
Completed == cur # 0 /\ pc \notin {"process", "flush", "backoff", "ack"}

\* number of times message m was acknowledged
AckCount(m) == Cardinality({i \in DOMAIN acked : acked[i] = m})

\* result of the latest plugin call for cur
LastResult == IF hist = <<>> THEN "-" ELSE hist[Len(hist)]

\* k Retryable results followed by one Ok
RetryThenOk(k) == [i \in 1..(k + 1) |-> IF i <= k THEN "Retryable" ELSE "Ok"]

AllRetryable(h) == h # <<>> /\ \A i \in DOMAIN h : h[i] = "Retryable"

\* every plugin call so far returned Ok and every ack call succeeded
AllOk ==
    /\ failed = {} /\ ackFailed = {} /\ skipped = {}
    /\ metrics.retried = 0
    /\ \A i \in DOMAIN hist : hist[i] = "Ok"

\* messages whose processing has reached its outcome
Processed == IF cur # 0 /\ ackRes = "none" /\ cur \notin failed
             THEN cur - 1 ELSE cur

OfTopic(s, t) == SelectSeq(s, LAMBDA m : topicOf[m] = t)

(* ------------------------------------------------------------------- C1 *)
\* C1: while the plugin returns ok for every call and every ack succeeds,
\* the acknowledged messages are exactly the messages processed so far, each
\* once and in receive order (hence in receive order per topic), and between
\* messages the number of acknowledgements equals the number received.
C1_AckOnceInOrder ==
    AllOk =>
      /\ acked = [i \in 1..Processed |-> i]
      /\ \A t \in Topics :
            OfTopic(acked, t) = OfTopic([i \in 1..Processed |-> i], t)
      /\ \A m \in 1..Processed : AckCount(m) = 1
      /\ Completed => Len(acked) = metrics.received

C1_Witness ==
    /\ AllOk
    /\ Len(acked) >= 2
    /\ metrics.received = Len(acked)

(* ------------------------------------------------------------------- C2 *)
\* C2 (as stated): with max_retries = k, a record for which the plugin
\* returned Retryable exactly k times and then ok is acknowledged exactly
\* once, messages_retried went up by k, messages_succeeded by one and
\* messages_errored not at all.
C2_Original ==
    (Completed /\ hist = RetryThenOk(cfg.max_retries)) =>
      /\ AckCount(cur) = 1
      /\ metrics.retried = snap.retried + cfg.max_retries
      /\ metrics.succeeded = snap.succeeded + 1
      /\ metrics.errored = snap.errored

\* C2 (amended): with max_retries = k, for a record for which the plugin
\* returned Retryable exactly k times and then ok, one ack call is made,
\* messages_retried went up by k and messages_errored not at all; if the ack
\* call succeeded the message is acknowledged exactly once and
\* messages_succeeded went up by one, and if it failed the message is not
\* acknowledged and messages_succeeded did not change.
C2_RetryThenOk ==
    (Completed /\ hist = RetryThenOk(cfg.max_retries)) =>
      /\ ackRes \in {"ok", "fail"}
      /\ metrics.retried = snap.retried + cfg.max_retries
      /\ metrics.errored = snap.errored
      /\ ackRes = "ok" =>
            AckCount(cur) = 1 /\ metrics.succeeded = snap.succeeded + 1
      /\ ackRes = "fail" =>
            AckCount(cur) = 0 /\ metrics.succeeded = snap.succeeded

C2_Witness ==
    /\ Completed
    /\ cfg.max_retries >= 2
    /\ hist = RetryThenOk(cfg.max_retries)
    /\ ackRes = "ok"

(* ------------------------------------------------------------------- C3 *)
\* the plugin call that exhausts the retries of cur
ExhaustStep ==
    /\ hist' # hist
    /\ AllRetryable(hist')
    /\ pc' # "backoff"

\* C3: with max_retries = k and a plugin that returned Retryable on every
\* call for a record, the plugin was called exactly k+1 times, the record is
\* counted as errored once and is never acknowledged, and the runtime stays
\* in its loop: the exhausting step returns to the loop head without calling
\* shutdown or returning, and the loop is left only when the shutdown flag
\* is set.
C3_RetryExhaustion ==
    /\ [](/\ (Completed /\ AllRetryable(hist)) =>
                /\ Len(hist) = cfg.max_retries + 1
                /\ metrics.errored = snap.errored + 1
                /\ metrics.succeeded = snap.succeeded
                /\ ackRes = "none"
                /\ cur \in failed
          /\ \A m \in failed : AckCount(m) = 0
          /\ (pc \in {"shutdown", "draining"} \/ shutdownCalls > 0)
                => shutdownFlag)
    /\ [][ExhaustStep =>
             /\ pc' = "loop"
             /\ shutdownCalls' = shutdownCalls
             /\ runResult' = "none"]_vars

C3_Witness ==
    /\ Completed
    /\ AllRetryable(hist)
    /\ cfg.max_retries >= 1
    /\ pc = "recv"
    /\ ~shutdownFlag
(* ------------------------------------------------------------------- C4 *)
\* C4: a record for which the plugin returned InvalidData is not retried,
\* its message is acknowledged, messages_invalid went up by one, and neither
\* messages_errored nor messages_succeeded changed for it.
C4_InvalidDataCounted ==
    (Completed /\ LastResult = "InvalidData") =>
      /\ \A i \in 1..(Len(hist) - 1) : hist[i] # "InvalidData"
      /\ ackRes # "none"
      /\ metrics.invalid = snap.invalid + 1
      /\ metrics.errored = snap.errored
      /\ metrics.succeeded = snap.succeeded

(* ------------------------------------------------------------------- C5 *)
\* C5: once a plugin call returned Fatal the runtime receives no further
\* message, and when run() has returned after it, shutdown() was called
\* exactly once.
C5_FatalStopsLoop ==
    [][/\ metrics'.received > metrics.received => LastResult # "Fatal"
       /\ (LastResult = "Fatal" /\ pc' = "stopped") => shutdownCalls' = 1
      ]_vars

(* ------------------------------------------------------------------- C6 *)
\* C6: a message is acknowledged only right after the latest plugin call for
\* its record returned ok or InvalidData, and it is the message being
\* processed; a message whose processing ended in a terminal failure (an
\* error that is not retried) is never acknowledged and messages_errored
\* counts every such message.
C6_AckSafety ==
    /\ [](/\ \A m \in failed : AckCount(m) = 0
          /\ metrics.errored = Cardinality(failed)
          /\ (Completed /\ LastResult \in {"Retryable", "Fatal"})
                => (cur \in failed /\ ackRes = "none")
          /\ ackRes = "ok" =>
                (LastResult \in {"Ok", "InvalidData"} /\ AckCount(cur) = 1))
    /\ [][acked' # acked =>
             /\ LastResult \in {"Ok", "InvalidData"}
             /\ acked' = Append(acked, cur)
             /\ cur \notin failed]_vars

C6_Witness ==
    /\ Len(acked) >= 1
    /\ failed # {}
    /\ pc = "recv"

(* ------------------------------------------------------------------- C7 *)
\* C7: with the buffering Delta Lake connector every acknowledged record has
\* been written to the table, is still held in its topic's buffer, or was
\* counted as a terminal error; once run() has returned it is written or
\* counted.
C7_NoSilentDrop ==
    plugin = "delta" =>
      \A m \in Range(acked) :
         \/ m \in written
         \/ m \in failed
         \/ (pc # "stopped" /\ m \in Range(BufOf(topicOf[m])))

(* ------------------------------------------------------------------- C8 *)
\* C8: after each completed process call of the Delta Lake connector, every
\* topic's buffer holds at most effective_batch_size(t) records (the
\* per-topic override if set, the global batch size otherwise).
C8_BufferBound ==
    (plugin = "delta" /\ pc # "flush") =>
      \A t \in Topics : Len(BufOf(t)) <= BatchSizeOf(t)

(* ------------------------------------------------------------------- C9 *)
\* a flush_topic(t) call is about to run
FlushAt(t) ==
    \/ pc = "flush" /\ t = topicOf[cur]
    \/ pc = "draining" /\ drainQueue # <<>> /\ Head(drainQueue) = t

\* this step is the flush_topic call
FlushTaken == (pc = "flush" /\ pc' # "flush") \/ drainQueue' # drainQueue

C10_TimeFlush ==
    (plugin = "delta" /\ pc = "recv") =>
      \A t \in Mapped : BufOf(t) # <<>> => idle <= BatchTimeoutTicks

(* ------------------------------------------------------------------ C11 *)
\* C11: when the Delta Lake connector is shut down with records buffered,
\* every buffered record of every mapped topic is handed to one write call
\* per topic before shutdown completes, and run() returns Ok.
C11_ShutdownDrain ==
    /\ []((plugin = "delta" /\ pc = "stopped" /\ shutdownCalls = 1) =>
            /\ runResult = "ok"
            /\ \A t \in Mapped : BufOf(t) = <<>>)
    /\ [][\A t \in Mapped :
             (pc = "draining" /\ FlushAt(t) /\ FlushTaken
                /\ BufOf(t) # <<>>) =>
                /\ nWrites' = nWrites + 1
                /\ lastWrite' = [topic |-> t, records |-> BufOf(t)]]_vars

(* ------------------------------------------------------------------ C12 *)
\* the flush_topic call of this drain step failed
DrainFlushFailed ==
    /\ pc = "draining"
    /\ drainQueue # <<>>
    /\ drainQueue' # drainQueue
    /\ BufOf(Head(drainQueue)) # <<>>
    /\ ~(Range(BufOf(Head(drainQueue))) \subseteq written')

\* C12: during the shutdown drain a failed flush of one topic does not halt
\* the drain: every other topic that still has buffered records stays due
\* for its flush, and shutdown returns Ok.
C12_DrainContinues ==
    /\ [][DrainFlushFailed =>
             \A u \in Range(Tail(drainQueue)) :
                BufOf(u) # <<>> => u \in Range(drainQueue')]_vars
    /\ []((plugin = "delta" /\ pc = "stopped" /\ shutdownCalls = 1) =>
            runResult = "ok")

(* ------------------------------------------------------------------ C13 *)
\* C13: once the shutdown flag is set while the sink runtime is in its main
\* loop, the runtime eventually stops reading and calls plugin.shutdown(),
\* also when no further message arrives on the receive stream (stated for
\* the states in which the broker could still deliver one).
C13_ShutdownLiveness ==
    (/\ shutdownFlag
     /\ pc \in {"loop", "recv", "process", "flush", "backoff", "ack"}
     /\ metrics.received < MaxMsgs)
       ~> (shutdownCalls = 1)

(* ------------------------------------- vocabulary of the source claims *)
\* the record publish_batch visits next has no producer
UndeclaredNext ==
    /\ srcPc = "publish"
    /\ sendIdx < Len(batch)
    /\ batch[sendIdx + 1] \notin producers

\* publish_batch of the latest poll ended at a record without a producer
EndedUndeclared == batch # <<>> /\ lastErr = "Fatal"

\* publish_batch of the latest poll ended at a failed send
EndedSendFailed == batch # <<>> /\ lastErr = "Retryable"

\* every record of the latest, non-empty poll was sent successfully
AllSent == batch # <<>> /\ sendIdx = Len(batch)

\* this step is a producer.send call that fails
SendFails ==
    /\ Len(sendLog') = Len(sendLog) + 1
    /\ ~sendLog'[Len(sendLog')].ok

\* positions of the records sent on topic t's producer, in call order
SendsOn(t) ==
    LET sel == SelectSeq(sendLog, LAMBDA e : e.topic = t)
    IN [i \in DOMAIN sel |-> sel[i].rec]

\* positions of the records of the latest poll targeted at t, in poll order
RecordsFor(t) ==
    LET F[i \in 0..Len(batch)] ==
          IF i = 0 THEN <<>>
          ELSE IF batch[i] = t THEN Append(F[i - 1], i - 1) ELSE F[i - 1]
    IN F[Len(batch)]

IsPrefix(a, b) == Len(a) <= Len(b) /\ \A i \in DOMAIN a : a[i] = b[i]

(* ------------------------------------------------------------------ C14 *)
\* C14: a polled record whose topic has no producer ends publish_batch with
\* a Fatal error: no send is made for that record or any later record of
\* the batch, and commit is not called for the batch.
C14_UndeclaredTopic ==
    /\ [][UndeclaredNext =>
             /\ sendLog' = sendLog
             /\ commits' = commits
             /\ \/ srcPc' = "publish" /\ lastErr' = lastErr
                \/ srcPc' = "loop" /\ lastErr' = "Fatal"]_vars
    /\ [](EndedUndeclared =>
             /\ batch[sendIdx + 1] \notin producers
             /\ \A i \in DOMAIN sendLog : sendLog[i].rec < sendIdx
             /\ commits = <<>>)

C14_Witness ==
    /\ EndedUndeclared
    /\ Len(sendLog) >= 1
    /\ sendIdx + 1 < Len(batch)
    /\ srcPc = "poll"

(* ------------------------------------------------------------------ C15 *)
\* C15: a Fatal error in the source runtime (poll returning Fatal, or a
\* record targeted at an undeclared topic) stops the polling loop: no
\* further poll is made, and run() does not return Ok.
C15_FatalPropagates ==
    /\ [][polls' # polls => lastErr # "Fatal"]_vars
    /\ []((lastErr = "Fatal" /\ srcPc = "stopped") =>
             srcResult \in {"err", "Fatal"})

(* ------------------------------------------------------------------ C16 *)
\* the offsets list the claim expects for the latest poll
ExpectedOffsets ==
    [i \in 1..Len(batch) |-> [topic |-> batch[i], offset |-> i - 1]]

\* C16: when every record of a non-empty poll batch is sent successfully,
\* commit is called exactly once for that batch, after the last send, with
\* one offset per record in input order, offset i = (records[i].topic, i).
C16_CommitOnce ==
    /\ [](Len(commits) <= 1)
    /\ []((AllSent /\ srcPc # "publish") =>
             /\ Len(commits) = 1
             /\ commits[1].offsets = ExpectedOffsets)
    /\ [][Len(commits') > Len(commits) =>
             /\ AllSent
             /\ Len(sendLog) = Len(batch)
             /\ sendLog' = sendLog
             /\ srcPc' = "loop"]_vars

C16_Witness ==
    /\ Len(commits) = 1
    /\ batch = <<"a", "b", "a">>
    /\ commits[1].offsets = <<[topic |-> "a", offset |-> 0],
                              [topic |-> "b", offset |-> 1],
                              [topic |-> "a", offset |-> 2]>>

(* ------------------------------------------------------------------ C17 *)
\* C17: if a send of a poll batch fails, commit is not called for that batch
\* (not even for the sent prefix), one error is counted, and the runtime
\* goes on to the next poll: it leaves the loop only on the shutdown flag.
C17_PublishFailure ==
    /\ [](EndedSendFailed =>
             /\ commits = <<>>
             /\ srcPc \in {"loop", "poll", "shutdown", "stopped"})
    /\ [][SendFails =>
             /\ srcMetrics'.errored = srcMetrics.errored + 1
             /\ srcPc' = "loop"
             /\ srcResult' = "none"]_vars
    /\ [][(EndedSendFailed /\ srcPc = "loop" /\ srcPc' # srcPc) =>
             srcPc' = IF srcShutdown THEN "shutdown" ELSE "poll"]_vars
    /\ [](srcShutdownCalls > 0 => srcShutdown)

C17_Witness ==
    /\ EndedSendFailed
    /\ Len(sendLog) >= 2
    /\ sendLog[1].ok
    /\ srcMetrics.succeeded >= 1
    /\ ~srcShutdown
    /\ srcPc = "poll"

(* ------------------------------------------------------------------ C18 *)
\* C18: with max_retries >= 1 a failed send is not yet terminal: the runtime
\* does not count an error and does not go back to polling, it re-attempts
\* the batch.
C18_PublishRetry ==
    [][(SendFails /\ cfg.max_retries >= 1) =>
          /\ srcMetrics'.errored = srcMetrics.errored
          /\ srcPc' # "loop"]_vars

EmptyPolled == polls > 0 /\ batch = <<>> /\ lastErr = "none"

\* C20: when poll returns an empty list the runtime makes no send and no
\* commit call, sleeps the poll interval, and then polls again unless the
\* shutdown flag is set.
C20_EmptyPoll ==
    /\ [](EmptyPolled =>
             /\ sendLog = <<>>
             /\ commits = <<>>
             /\ srcPc \in {"sleep", "loop", "poll", "shutdown", "stopped"})
    /\ [][(polls' # polls /\ EmptyPolled') => srcPc' = "sleep"]_vars
    /\ [][(EmptyPolled /\ srcPc = "sleep" /\ srcPc' # srcPc) =>
             srcPc' = "loop"]_vars
    /\ [][(EmptyPolled /\ srcPc = "loop" /\ srcPc' # srcPc) =>
             srcPc' = IF srcShutdown THEN "shutdown" ELSE "poll"]_vars

C20_Witness ==
    /\ EmptyPolled
    /\ srcPc = "poll"
    /\ ~srcShutdown
    /\ srcMetrics.errored = 0

(* ------------------------------------------------------------------ C21 *)
\* C21: during one runtime lifetime at most one producer is created for each
\* topic, whatever list producer_configs() returns, a list naming the same
\* topic twice included.
C21_ProducerOnce == \A t \in SrcTopics : created[t] <= 1

(* ------------------------------------------------------------------ C22 *)
\* the source runtime is in its polling loop
Polling == srcPc \in {"loop", "poll", "publish", "sleep", "errsleep"}

\* C22: producers are created upfront and are fixed: from the first poll on
\* the key set of the producer map is the set of topics producer_configs()
\* returned, and the polling loop never adds, replaces or removes a producer.
C22_ProducersFixed ==
    /\ [](Polling => producers = Range(producerCfgs))
    /\ [][Polling => (producers' = producers /\ created' = created)]_vars

C22_Witness ==
    /\ polls >= 1
    /\ producers = {"a", "b"}
    /\ Len(sendLog) >= 2
    /\ srcPc = "poll"

(* ------------------------------------------------------------------ C23 *)
\* C23: after the shutdown flag is set no new poll is started; a batch that
\* was already polled is published and committed to completion; then
\* plugin.shutdown() has been called exactly once and health is false when
\* run() has returned from the polling loop.
C23_SourceShutdown ==
    /\ [][polls' # polls => ~srcShutdown]_vars
    /\ [][(srcShutdown /\ srcPc = "publish") =>
             srcPc' \in {"publish", "loop"}]_vars
    /\ []((srcPc = "stopped" /\ srcShutdown /\ srcResult \in {"ok", "err"}
             /\ producers # {}) =>
             /\ srcShutdownCalls = 1
             /\ ~srcMetrics.healthy)

(* ------------------------------------------------------------------ C24 *)
\* lifecycle state of the sink runtime
SinkPhase ==
    CASE pc = "init" -> "New"
      [] pc = "subscribe" -> "Initialized"
      [] pc \in {"shutdown", "draining"} -> "Draining"
      [] pc = "stopped" -> "Stopped"
      [] OTHER -> "Running"

\* lifecycle state of the source runtime
SourcePhase ==
    CASE srcPc = "init" -> "New"
      [] srcPc \in {"producers", "create"} -> "Initialized"
      [] srcPc = "shutdown" -> "Draining"
      [] srcPc = "stopped" -> "Stopped"
      [] OTHER -> "Running"

\* the lifecycle order, with the exits an error takes before Running
LifecycleOrder ==
    {<<"New", "Initialized">>, <<"Initialized", "Running">>,
     <<"Running", "Draining">>, <<"Draining", "Stopped">>,
     <<"New", "Stopped">>, <<"Initialized", "Stopped">>}

\* C24: both runtimes follow New, Initialized, Running, Draining, Stopped:
\* initialize is called once (New is left and never entered again) and
\* before any process or poll call; process, poll, send and commit calls are
\* made only while Running and never after plugin.shutdown was called;
\* plugin.shutdown is called at most once; nothing happens after Stopped.
C24_Lifecycle ==
    /\ [][SinkPhase' # SinkPhase =>
             <<SinkPhase, SinkPhase'>> \in LifecycleOrder]_vars
    /\ [][SourcePhase' # SourcePhase =>
             <<SourcePhase, SourcePhase'>> \in LifecycleOrder]_vars
    /\ [][(hist' # hist \/ metrics'.received # metrics.received) =>
             (SinkPhase = "Running" /\ shutdownCalls = 0)]_vars
    /\ [][(polls' # polls \/ Len(sendLog') > Len(sendLog)
             \/ Len(commits') > Len(commits)) =>
             (SourcePhase = "Running" /\ srcShutdownCalls = 0)]_vars
    /\ [](shutdownCalls <= 1 /\ srcShutdownCalls <= 1)
    /\ [][shutdownCalls' # shutdownCalls => SinkPhase = "Draining"]_vars
    /\ [][srcShutdownCalls' # srcShutdownCalls =>
             SourcePhase = "Draining"]_vars
    /\ [][pc = "stopped" => UNCHANGED <<pc, runtimeVars, deltaVars>>]_vars
    /\ [][srcPc = "stopped" =>
             UNCHANGED <<srcPc, producerVars, batchVars, srcMetrics,
                         srcShutdownCalls, srcResult>>]_vars

C24_Witness ==
    /\ pc = "stopped"
    /\ shutdownCalls = 1
    /\ Len(acked) >= 1
    /\ failed # {}

(* ------------------------------------------------------------------ C25 *)
\* plugin methods whose call returns in this step of the sink runtime
SinkCallsDone ==
    (IF pc = "init" /\ pc' # "init" THEN {"initialize"} ELSE {})
    \cup (IF Len(hist') > Len(hist) THEN {"process"} ELSE {})
    \cup (IF shutdownCalls' # shutdownCalls \/ (pc = "draining" /\ pc' # pc)
          THEN {"shutdown"} ELSE {})

\* plugin methods whose call returns in this step of the source runtime
SourceCallsDone ==
    (IF srcPc = "init" /\ srcPc' # "init" THEN {"initialize"} ELSE {})
    \cup (IF srcPc = "producers" /\ srcPc' # srcPc
          THEN {"producer_configs"} ELSE {})
    \cup (IF polls' # polls THEN {"poll"} ELSE {})
    \cup (IF Len(commits') > Len(commits) THEN {"commit"} ELSE {})
    \cup (IF srcShutdownCalls' # srcShutdownCalls THEN {"shutdown"} ELSE {})

\* the plugin method the sink runtime is suspended in, if any
SinkExecuting ==
    CASE pc = "init" -> {"initialize"}
      [] pc \in {"process", "flush"} -> {"process"}
      [] pc \in {"shutdown", "draining"} -> {"shutdown"}
      [] OTHER -> {}

\* C25: plugin calls are serialized under every interleaving with the
\* shutdown-signal task: a step of the signal task touches nothing but the
\* flag; every other step completes at most one plugin call, the one the
\* runtime was suspended in; a flush writes at most one batch and runs only
\* inside that one process or shutdown call, so two flushes of a topic never
\* overlap.
C25_Serialized ==
    /\ [][shutdownFlag' # shutdownFlag =>
             UNCHANGED <<pc, runtimeVars, deltaVars>>]_vars
    /\ [][srcShutdown' # srcShutdown =>
             UNCHANGED <<srcPc, producerVars, batchVars, srcMetrics,
                         srcShutdownCalls, srcResult>>]_vars
    /\ [][/\ Cardinality(SinkCallsDone) <= 1
          /\ SinkCallsDone \subseteq SinkExecuting
          /\ Cardinality(SourceCallsDone) <= 1]_vars
    /\ [][nWrites' # nWrites =>
             /\ nWrites' = nWrites + 1
             /\ pc \in {"flush", "draining"}
             /\ FlushAt(lastWrite'.topic)
             /\ \A t \in Topics \ {lastWrite'.topic} : BufOf(t)' = BufOf(t)
          ]_vars

C25_Witness ==
    /\ plugin = "delta"
    /\ shutdownFlag
    /\ pc = "flush"
    /\ nWrites >= 1

(* ------------------------------------------------------------------ C26 *)
\* a record is being processed: plugin call, flush, backoff sleep or ack
InFlight == pc \in {"process", "flush", "backoff", "ack"}

\* the processing of cur ended in its outcome: the ack call was made after a
\* success (and the message is acknowledged if that call succeeded), or the
\* record was counted as errored after a terminal failure
HasOutcome ==
    \/ /\ LastResult \in {"Ok", "InvalidData"}
       /\ ackRes # "none"
       /\ ackRes = "ok" => AckCount(cur) = 1
    \/ /\ cur \in failed
       /\ metrics.errored = snap.errored + 1
       /\ LastResult = "Retryable" => Len(hist) = cfg.max_retries + 1

AttemptFails ==
    /\ Len(hist') > Len(hist)
    /\ hist'[Len(hist')] # "Ok"

\* C27: after a failed attempt, retry number N (1-indexed, N = number of
\* attempts made so far) is performed iff the error is Retryable and
\* N <= max_retries; a non-Retryable first error is never retried (one
\* plugin call, messages_retried not incremented); with max_retries = 0 a
\* Retryable error is terminal after the first attempt.
C27_RetryDecision ==
    /\ [][AttemptFails =>
             LET r == hist'[Len(hist')]
                 N == Len(hist')
                 retried == pc' = "backoff"
             IN /\ retried <=> (r = "Retryable" /\ N <= cfg.max_retries)
                /\ metrics'.retried =
                      IF retried THEN metrics.retried + 1
                      ELSE metrics.retried]_vars
    /\ [][pc = "backoff" /\ pc' # pc => pc' = "process"]_vars
    /\ []((Completed /\ hist # <<>> /\ hist[1] \notin {"Ok", "Retryable"})
             => (Len(hist) = 1 /\ metrics.retried = snap.retried))
    /\ []((Completed /\ hist # <<>> /\ hist[1] = "Retryable"
             /\ cfg.max_retries = 0)
             => (Len(hist) = 1 /\ cur \in failed))

C27_Witness ==
    /\ Completed
    /\ cfg.max_retries = 2
    /\ hist = <<"Retryable", "Fatal">>
    /\ metrics.retried = 1
    /\ cur \in failed

(* ------------------------------------------------------------------ C28 *)
\* min(base * 2^(N-1), cap)
ExpectedBackoff(base, cap, N) ==
    IF base = 0 THEN 0
    ELSE IF N - 1 >= CapBits THEN cap
    ELSE Min(base * 2 ^ (N - 1), cap)

C29_HealthGauge ==
    /\ SinkPhase \in {"New", "Initialized", "Running"} => metrics.healthy
    /\ SourcePhase \in {"New", "Initialized", "Running"} =>
          srcMetrics.healthy
    /\ pc = "stopped" => ~metrics.healthy
    /\ srcPc = "stopped" => ~srcMetrics.healthy

(* ------------------------------------------------------------------ C30 *)
\* C30: validate returns a Config error iff danube_service_url is empty,
\* connector_name is empty, batch_size = 0 or max_retries > 100, and Ok for
\* every other configuration; it does not modify the configuration.
C30_Validate ==
    fnArgs.fn = "validate" =>
       LET c == fnArgs.config IN
       /\ fnRes.result \in {"Ok", "Config"}
       /\ fnRes.result = "Config" <=>
             \/ c.danube_service_url = ""
             \/ c.connector_name = ""
             \/ c.batch_size = 0
             \/ c.max_retries > 100
       /\ fnRes.config = c

C30_Witness ==
    /\ fnArgs.fn = "validate"
    /\ fnArgs.config.max_retries = 100
    /\ fnArgs.config.batch_size = 1
    /\ fnRes.result = "Ok"

(* ------------------------------------------------------------------ C31 *)
\* C31: a record whose payload is the 8 big-endian bytes of a 64-bit signed
\* x decodes with payload_int64 to exactly x; for every payload whose length
\* is not exactly 8 bytes payload_int64 returns an InvalidData error and no
\* value.
C31_Int64RoundTrip ==
    fnArgs.fn = "payload_int64" =>
       /\ fnArgs.payload = ToBeBytes(fnArgs.x) =>
             fnRes.result = [kind |-> "Ok", value |-> fnArgs.x]
       /\ Len(fnArgs.payload) # 8 =>
             /\ fnRes.result.kind = "Err"
             /\ fnRes.result.error = "InvalidData"
             /\ "value" \notin DOMAIN fnRes.result

\* i64::MIN was decoded from its eight bytes
C31_Witness ==
    /\ fnArgs.fn = "payload_int64"
    /\ fnArgs.x = I64(-(2^15), 0, 0, 0)
    /\ fnArgs.payload = <<128, 0, 0, 0, 0, 0, 0, 0>>
    /\ fnRes.result.kind = "Ok"

(* ------------------------------------------------------------------ C32 *)
\* C32: at every main-loop boundary messages_received = messages_succeeded
\* + messages_errored + the number of messages whose ack call failed;
\* messages_succeeded goes up only in the step in which the ack call
\* returned ok, so a record processed successfully whose ack fails is counted
\* neither as succeeded nor as errored.
C32_CounterConservation ==
    /\ [](~InFlight =>
            metrics.received = metrics.succeeded + metrics.errored
                                 + Cardinality(ackFailed))
    /\ [][metrics'.succeeded # metrics.succeeded =>
            /\ metrics'.succeeded = metrics.succeeded + 1
            /\ pc = "ack" /\ ackRes' = "ok"
            /\ acked' = Append(acked, cur)]_vars
    /\ [](~InFlight /\ ackRes = "fail" =>
            /\ metrics.succeeded = snap.succeeded
            /\ metrics.errored = snap.errored
            /\ cur \notin failed)

\* both messages were received; one ack call failed and the other message
\* ended in an error
C32_Witness ==
    /\ pc = "loop"
    /\ metrics.received = 2
    /\ ackFailed # {}
    /\ metrics.errored = 1

(* ------------------------------------------------------------------ C33 *)
\* process_with_retry is executing for cur
InRetryLoop == pc \in {"process", "flush", "backoff"}

\* C33: the sink retry loop terminates for every plugin behaviour:
\* process_with_retry calls the plugin at most max_retries + 1 times for one
\* record, it leaves its loop by returning Ok (after an Ok or a skipped
\* InvalidData result) or the error of the last call, and it always leaves it.
C33_RetryTerminates ==
    /\ [](Len(hist) <= cfg.max_retries + 1)
    /\ [][(InRetryLoop /\ ~InRetryLoop') =>
             \/ /\ pc' = "ack"
                /\ LastResult' \in {"Ok", "InvalidData"}
             \/ /\ pc' = "loop"
                /\ cur \in failed'
                /\ LastResult' \in {"Retryable", "Fatal"}]_vars
    /\ InRetryLoop ~> ~InRetryLoop

\* every retry was used up and the last error was returned
C33_Witness ==
    /\ cfg.max_retries >= 2
    /\ Len(hist) = cfg.max_retries + 1
    /\ LastResult = "Retryable"
    /\ pc = "loop"
    /\ cur \in failed

(* ------------------------------------------------------------------ C34 *)
\* number of outcomes recorded for message m: acknowledgements, failed ack
\* calls and terminal errors
OutcomeCount(m) ==
    AckCount(m) + (IF m \in ackFailed THEN 1 ELSE 0)
                + (IF m \in failed THEN 1 ELSE 0)

\* messages received whose processing has no outcome yet
Pending == {m \in 1..metrics.received : OutcomeCount(m) = 0}

\* C34: the sink runtime has at most one record in flight: the next message
\* is taken from the stream only after the current one was acknowledged,
\* failed to acknowledge or was counted as errored, so every earlier message
\* has exactly one outcome before the first plugin call for the next.
C34_OneInFlight ==
    /\ [](/\ Cardinality(Pending) <= 1
          /\ Pending \subseteq {cur}
          /\ \A m \in 1..metrics.received : OutcomeCount(m) <= 1)
    /\ [][cur' # cur =>
             /\ cur' = cur + 1
             /\ pc = "recv"
             /\ cur # 0 =>
                   \/ ackRes \in {"ok", "fail"}
                   \/ cur \in failed /\ metrics.errored = snap.errored + 1]_vars
    /\ [][Len(hist') > Len(hist) =>
             \A m \in 1..(cur - 1) : OutcomeCount(m) = 1]_vars

\* the second message is being processed after the first one's ack call
\* failed
C34_Witness ==
    /\ cur = 2
    /\ pc = "process"
    /\ 1 \in ackFailed
    /\ Pending = {2}

(* ------------------------------------------------------------------ C35 *)
\* this step is a producer.send call that succeeds
SendSucceeds ==
    /\ Len(sendLog') = Len(sendLog) + 1
    /\ sendLog'[Len(sendLog')].ok

\* C35: when the send of record i of a poll batch fails, records 0..i-1 have
\* each been sent exactly once, successfully, and each was counted as
\* succeeded when it was sent; record i was sent once; records after i are
\* not sent; and the offsets collected for the sent prefix are not passed to
\* commit.
C35_PartialPublication ==
    /\ [](EndedSendFailed =>
             /\ Len(sendLog) = sendIdx + 1
             /\ \A k \in 1..Len(sendLog) :
                   /\ sendLog[k].rec = k - 1
                   /\ sendLog[k].ok <=> k <= sendIdx
             /\ offsets = [k \in 1..sendIdx |->
                             [topic |-> batch[k], offset |-> k - 1]]
             /\ commits = <<>>)
    /\ [][SendSucceeds =>
             srcMetrics'.succeeded = srcMetrics.succeeded + 1]_vars
    /\ [][(EndedSendFailed /\ polls' = polls) =>
             sendLog' = sendLog /\ commits' = commits]_vars

\* the second of three records failed: one record sent, one never sent
C35_Witness ==
    /\ EndedSendFailed
    /\ Len(batch) = 3
    /\ sendIdx = 1
    /\ Len(offsets) = 1
    /\ srcMetrics.succeeded >= 1

(* ------------------------------------------------------------------ C36 *)
\* the commit call made for the latest poll returned an error
CommitFailed == commits # <<>> /\ ~commits[Len(commits)].ok

\* C36: if commit returns an error after a fully published batch, the
\* runtime does not call commit again for that batch, does not re-send any
\* of its records, does not increment the error counter, and goes on to the
\* next poll (it leaves the loop only on the shutdown flag).
C36_CommitFailure ==
    /\ [][(Len(commits') > Len(commits) /\ CommitFailed') =>
             /\ srcMetrics' = srcMetrics
             /\ sendLog' = sendLog
             /\ srcPc' = "loop"
             /\ srcResult' = "none"]_vars
    /\ [](CommitFailed =>
             /\ Len(commits) = 1
             /\ Len(sendLog) = Len(batch)
             /\ \A k \in DOMAIN sendLog : sendLog[k].ok /\ sendLog[k].rec = k - 1
             /\ srcPc \in {"loop", "poll", "shutdown", "stopped"})
    /\ [][(CommitFailed /\ polls' = polls) =>
             /\ commits' = commits
             /\ sendLog' = sendLog
             /\ srcMetrics'.errored = srcMetrics.errored]_vars
    /\ [][(CommitFailed /\ srcPc = "loop" /\ srcPc' # srcPc) =>
             srcPc' = IF srcShutdown THEN "shutdown" ELSE "poll"]_vars

\* the commit of a two-record batch failed and the runtime is about to poll
\* again
C36_Witness ==
    /\ CommitFailed
    /\ Len(batch) >= 2
    /\ srcMetrics.errored = 0
    /\ ~srcShutdown
    /\ srcPc = "poll"
    /\ polls < MaxPolls

(* ------------------------------------------------------------------ C37 *)
\* producer_configs() returned an empty list
EmptyConfigs == createIdx = 1 /\ producerCfgs = <<>>

\* C37: if producer_configs() returns an empty list, run() returns a Config
\* error without ever calling poll, and without calling plugin.shutdown() or
\* setting health to false, although plugin.initialize() had succeeded.
C37_EmptyProducerConfigs ==
    /\ EmptyConfigs =>
          /\ srcPc = "stopped"
          /\ srcResult = "Config"
          /\ polls = 0
          /\ producers = {}
          /\ srcShutdownCalls = 0
          /\ srcMetrics.healthy
    /\ srcResult = "Config" => EmptyConfigs

C37_Witness ==
    /\ EmptyConfigs
    /\ srcResult = "Config"
    /\ srcMetrics.healthy
    /\ srcPc = "stopped"

(* ------------------------------------------------------------------ C38 *)
\* C38: if plugin.initialize returns an error, run() returns that error at
\* once: the failing step ends run() with no consumer or producer created,
\* no record received, processed or polled and no plugin.shutdown() call,
\* and nothing of this happens afterwards.
C38_InitFailure ==
    /\ [][(pc = "init" /\ pc' \notin {"init", "subscribe"}) =>
             /\ pc' = "stopped"
             /\ runResult' = "err"
             /\ shutdownCalls' = 0
             /\ metrics'.received = 0
             /\ hist' = <<>>]_vars
    /\ [][(srcPc = "init" /\ srcPc' \notin {"init", "producers"}) =>
             /\ srcPc' = "stopped"
             /\ srcResult' = "err"
             /\ producers' = {}
             /\ \A t \in SrcTopics : created'[t] = 0
             /\ polls' = 0
             /\ srcShutdownCalls' = 0]_vars
    /\ [][pc = "stopped" =>
             UNCHANGED <<pc, runResult, shutdownCalls, metrics, hist, cur>>]_vars
    /\ [][srcPc = "stopped" =>
             UNCHANGED <<srcPc, srcResult, producers, created, polls,
                         sendLog, srcShutdownCalls>>]_vars

\* the sink runtime's run() returned the error of initialize
C38_Witness ==
    /\ pc = "stopped"
    /\ runResult = "err"
    /\ shutdownCalls = 0
    /\ metrics.received = 0
    /\ srcPc = "init"

(* ------------------------------------------------------------------ C39 *)
\* this step ends a process call of the Delta Lake connector with an error
ProcessCallFails ==
    /\ plugin = "delta"
    /\ Len(hist') > Len(hist)
    /\ LastResult' # "Ok"

\* the buffers as they were when the process call now at its flush began:
\* the call has pushed cur onto the buffer of its topic and nothing else
BuffersBeforeCall ==
    [buffers EXCEPT ![topicOf[cur]] = SubSeq(@, 1, Len(@) - 1)]

\* C39: a process call of the buffering sink that returns an error (a topic
\* with no mapping, or a failed flush) leaves the connector's per-topic
\* buffers exactly as they were before the call.
C39_BuffersUnchangedOnError ==
    /\ [][(ProcessCallFails /\ pc = "process") => buffers' = buffers]_vars
    /\ [][(ProcessCallFails /\ pc = "flush") =>
             buffers' = BuffersBeforeCall]_vars
====
